---- MODULE Spec2Model ----
(***************************************************************************)
(* Rate-limited password-reset token lifecycle:                           *)
(*   api/password_reset_request.py  RateLimiter                           *)
(*   api/password_reset.py          PasswordResetManager                  *)
(*                                                                         *)
(* Time is a non-decreasing integer clock counted in ticks; datetime.now() *)
(* reads the variable `now`.  The code only orders timestamps and takes    *)
(* their differences, so the window of the rate limiter (window_minutes)   *)
(* and the life time of a token (one hour) are scaled to a few ticks.      *)
(***************************************************************************)
EXTENDS Integers, Sequences, FiniteSets, TLC

\* ---- bounds of the model ------------------------------------------------
TicksPerSecond == 2     \* clock resolution: ticks in one second
WindowTicks == 2        \* the rate-limit window, in ticks
ExpiryTicks == 2        \* the life time of a token, in ticks
MaxGens == 2            \* successful generate_reset_token calls in a run
MaxPwLen == 8           \* longest new_password tried
MaxRaceCalls == 4       \* interleaved is_allowed calls that get past the length test

\* ---- program constants ---------------------------------------------------
max_requests == 3       \* RateLimiter.__init__ default, and the API's value
MinPasswordLen == 8     \* reset_password: len(new_password) < 8

Window == WindowTicks      \* timedelta(minutes=self.window_minutes)
Expiry == ExpiryTicks      \* timedelta(hours=1)
MaxTimeRL == Window + 1
MaxTimeTok == Expiry + 1

\* identities / rate-limit keys, as sequences of characters
EmailA == <<"a", "@", "b">>
EmailC == <<"c", "@", "d">>
ValidEmails == {EmailA, EmailC}
Emails == ValidEmails \cup {<<>>, <<"a", "b">>}
Keys == ValidEmails

\* token strings: secrets.token_urlsafe(32) returns one of GenTokens
GenTokens == {"t1", "t2"}
Tokens == GenTokens \cup {""}

Passwords == {[i \in 1..n |-> "x"] : n \in {0, MinPasswordLen - 1} \cup (MinPasswordLen..MaxPwLen)}

VARIABLES
    now,            \* datetime.now()
    requests,       \* RateLimiter.requests: email -> list of timestamps
    reset_tokens,   \* PasswordResetManager.reset_tokens: token -> record
    last,           \* the last call and what it returned
    admitted,       \* history: per key, the timestamps of the admitted calls
    wasRejected,    \* history: per key, some is_allowed call was rejected
    retryAt,        \* history: pairs <<key, instant>> a get_retry_after call that
                    \* followed a rejection of the key told the caller to wait for
    gens,           \* history: per token string, times generate returned it
    collided,       \* history: generate returned a string then in the store
    issuedAt,       \* history: time of the latest generate of the string
    consumedOK,     \* history: per token string, successful reset_password calls
    consumedThis,   \* history: consumed since the latest generate of the string
    registered_emails,  \* PasswordResetRequestAPI.registered_emails
    issued,         \* history: per identity, the times a token was created for it
    calls,          \* the calls in progress when calls interleave: per thread,
                    \* its position in the handler and the handler's locals
    raced           \* history: two calls for the same token, or for the same
                    \* key, were in progress at the same time

vars == <<now, requests, reset_tokens, last, admitted, wasRejected, retryAt,
          gens, collided, issuedAt, consumedOK, consumedThis,
          registered_emails, issued, calls, raced>>

rlHist == <<admitted, wasRejected, retryAt>>
tokHist == <<gens, collided, issuedAt, consumedOK, consumedThis>>
apiVars == <<registered_emails, issued, calls, raced>>

\* threads of the interleaved calls; a thread outside a handler is Idle
Threads == {1, 2}
Call(pc, token, email, t, list) ==
    [pc |-> pc, token |-> token, email |-> email, t |-> t, list |-> list]
Idle == Call("idle", "", <<>>, 0, <<>>)

\* ---- helpers ------------------------------------------------------------
\* f[k] = v   (mutant: the other keys are dropped)
PutAlone(f, k, v) == [x \in {k} |-> v]

Put(f, k, v) == [x \in (DOMAIN f) \cup {k} |-> IF x = k THEN v ELSE f[x]]

SeqMin(s) == CHOOSE m \in {s[i] : i \in DOMAIN s} : \A i \in DOMAIN s : m <= s[i]

\* int(x): truncation toward zero of num/den, den > 0
IntTrunc(num, den) == IF num >= 0 THEN num \div den ELSE -((-num) \div den)

RECURSIVE SumOver(_, _)
SumOver(f, S) == IF S = {} THEN 0
                 ELSE LET x == CHOOSE y \in S : TRUE IN f[x] + SumOver(f, S \ {x})

HasAt(email) == \E i \in DOMAIN email : email[i] = "@"

\* retry: the call is a consume that directly follows a consume of the same
\* token refused for its short password
Result(op, arg, email, ok, msg, val) ==
    [op |-> op, arg |-> arg, email |-> email, ok |-> ok, msg |-> msg, val |-> val,
     retry |-> FALSE]

\* ---- RateLimiter ----------------------------------------------------------
\* the list comprehension of is_allowed: keeps ts > window_start
\* (mutants: one keeps the boundary timestamp, one purges a tick too early)
PurgeKeepsBoundary(ts_list, window_start) ==
    SelectSeq(ts_list, LAMBDA ts : ts >= window_start)

PurgeTooEager(ts_list, window_start) ==
    SelectSeq(ts_list, LAMBDA ts : ts > window_start + 1)

Purge(ts_list, window_start) ==
    SelectSeq(ts_list, LAMBDA ts : ts > window_start)

\* the mutant admits when the list is exactly full
UnderLimitOffByOne(ts_list) == ~(Len(ts_list) > max_requests)

UnderLimit(ts_list) == ~(Len(ts_list) >= max_requests)

\* (mutant of is_allowed: the timestamp is recorded before the limit is tested)
is_allowed_records_first(email) ==
    LET stored == IF email \in DOMAIN requests THEN requests[email] ELSE <<>>
        window_start == now - Window
        recorded == Append(Purge(stored, window_start), now)
    IN  IF Len(recorded) > max_requests
        THEN /\ requests' = Put(requests, email, recorded)
             /\ last' = Result("is_allowed", "", email, FALSE, "", 0)
             /\ wasRejected' = [wasRejected EXCEPT ![email] = TRUE]
             /\ UNCHANGED <<now, reset_tokens, admitted, retryAt, tokHist, apiVars>>
        ELSE /\ requests' = Put(requests, email, recorded)
             /\ last' = Result("is_allowed", "", email, TRUE, "", 0)
             /\ admitted' = [admitted EXCEPT ![email] = Append(@, now)]
             /\ retryAt' = {p \in retryAt : p[1] # email}
             /\ UNCHANGED <<now, reset_tokens, wasRejected, tokHist, apiVars>>

is_allowed(email) ==
    LET stored == IF email \in DOMAIN requests THEN requests[email] ELSE <<>>
        window_start == now - Window
        purged == Purge(stored, window_start)
    IN  IF ~UnderLimit(purged)
        THEN /\ requests' = Put(requests, email, purged)
             /\ last' = Result("is_allowed", "", email, FALSE, "", 0)
             /\ wasRejected' = [wasRejected EXCEPT ![email] = TRUE]
             /\ UNCHANGED <<now, reset_tokens, admitted, retryAt, tokHist, apiVars>>
        ELSE /\ requests' = Put(requests, email, Append(purged, now))
             /\ last' = Result("is_allowed", "", email, TRUE, "", 0)
             /\ admitted' = [admitted EXCEPT ![email] = Append(@, now)]
             /\ retryAt' = {p \in retryAt : p[1] # email}
             /\ UNCHANGED <<now, reset_tokens, wasRejected, tokHist, apiVars>>

\* max(0, int(seconds_left))   (mutant: the floor at 0 is left out)
MaxIgnoresFloor(a, b) == b

Max(a, b) == IF a >= b THEN a ELSE b

\* returns None (ok = FALSE) or the whole seconds left (ok = TRUE, val)
get_retry_after(email) ==
    LET afterRejection == last.op = "is_allowed" /\ last.email = email /\ ~last.ok
    IN  /\ IF email \notin DOMAIN requests \/ requests[email] = <<>>
           THEN /\ last' = Result("get_retry_after", "", email, FALSE, "", 0)
                /\ retryAt' = retryAt
           ELSE LET oldest_request == SeqMin(requests[email])
                    retry_time == oldest_request + Window
                    seconds_left == IntTrunc(retry_time - now, TicksPerSecond)
                    seconds == Max(0, seconds_left)
                IN  /\ last' = Result("get_retry_after", "", email, TRUE, "", seconds)
                    /\ retryAt' = IF afterRejection
                                  THEN {p \in retryAt : p[1] # email}
                                         \cup {<<email, now + seconds * TicksPerSecond>>}
                                  ELSE retryAt
        /\ UNCHANGED <<now, requests, reset_tokens, admitted, wasRejected, tokHist, apiVars>>

\* ---- PasswordResetManager -------------------------------------------------
\* expiry = datetime.now() + timedelta(hours=1)   (mutant: a longer life time)
ExpiryOfLong(t) == t + 2 * Expiry

ExpiryOf(t) == t + Expiry

\* if not email or '@' not in email   (mutant: only the empty identity fails)
InvalidEmailOnlyEmpty(email) == email = <<>>

InvalidEmail(email) == email = <<>> \/ ~HasAt(email)

generate_reset_token(email) ==
    IF InvalidEmail(email)
    THEN /\ last' = Result("generate", "", email, FALSE, "ValueError", 0)
         /\ UNCHANGED <<now, requests, reset_tokens, rlHist, apiVars, tokHist>>
    ELSE \E token \in GenTokens :       \* secrets.token_urlsafe(32)
         /\ SumOver(gens, GenTokens) < MaxGens
         /\ LET expiry == ExpiryOf(now)
            IN  /\ reset_tokens' = Put(reset_tokens, token,
                        [email |-> email, expiry |-> expiry, used |-> FALSE])
                /\ last' = Result("generate", token, email, TRUE, "", expiry)
         /\ gens' = [gens EXCEPT ![token] = @ + 1]
         /\ collided' = [collided EXCEPT ![token] = @ \/ token \in DOMAIN reset_tokens]
         /\ issuedAt' = [issuedAt EXCEPT ![token] = now]
         /\ consumedThis' = [consumedThis EXCEPT ![token] = FALSE]
         /\ UNCHANGED <<now, requests, rlHist, apiVars, consumedOK>>

Invalid(error) == [valid |-> FALSE, error |-> error, email |-> <<>>]

\* mutants of validate_token: the expiry test before the used test; >= for >
validate_token_expiry_first(token) ==
    IF token = "" THEN Invalid("Token is required")
    ELSE IF token \notin DOMAIN reset_tokens THEN Invalid("Invalid token")
    ELSE LET token_data == reset_tokens[token]
         IN  IF now > token_data.expiry THEN Invalid("Token has expired")
             ELSE IF token_data.used THEN Invalid("Token already used")
             ELSE [valid |-> TRUE, error |-> "", email |-> token_data.email]

validate_token_expires_at_expiry(token) ==
    IF token = "" THEN Invalid("Token is required")
    ELSE IF token \notin DOMAIN reset_tokens THEN Invalid("Invalid token")
    ELSE LET token_data == reset_tokens[token]
         IN  IF token_data.used THEN Invalid("Token already used")
             ELSE IF now >= token_data.expiry THEN Invalid("Token has expired")
             ELSE [valid |-> TRUE, error |-> "", email |-> token_data.email]

\* (mutant: the record is looked up without the membership test)
validate_token_unchecked_lookup(token) ==
    IF token = "" THEN Invalid("Token is required")
    ELSE IF token \notin DOMAIN reset_tokens THEN Invalid("KeyError")
    ELSE LET token_data == reset_tokens[token]
         IN  IF token_data.used THEN Invalid("Token already used")
             ELSE IF now > token_data.expiry THEN Invalid("Token has expired")
             ELSE [valid |-> TRUE, error |-> "", email |-> token_data.email]

validate_token(token) ==
    IF token = "" THEN Invalid("Token is required")
    ELSE IF token \notin DOMAIN reset_tokens THEN Invalid("Invalid token")
    ELSE LET token_data == reset_tokens[token]
         IN  IF token_data.used THEN Invalid("Token already used")
             ELSE IF now > token_data.expiry THEN Invalid("Token has expired")
             ELSE [valid |-> TRUE, error |-> "", email |-> token_data.email]

\* a call of validate_token  (mutant: validation evicts the expired record)
ValidateEvictsExpired(token) ==
    LET validation == validate_token(token)
    IN  /\ last' = Result("validate", token, validation.email,
                          validation.valid, validation.error, 0)
        /\ reset_tokens' = IF validation.error = "Token has expired"
                           THEN [t \in (DOMAIN reset_tokens) \ {token} |-> reset_tokens[t]]
                           ELSE reset_tokens
        /\ UNCHANGED <<now, requests, rlHist, apiVars, tokHist>>

Validate(token) ==
    LET validation == validate_token(token)
    IN  /\ last' = Result("validate", token, validation.email,
                          validation.valid, validation.error, 0)
        /\ UNCHANGED <<now, requests, reset_tokens, rlHist, apiVars, tokHist>>

\* if not new_password or len(new_password) < 8   (mutant: <= 8)
PasswordTooShortOffByOne(new_password) ==
    new_password = <<>> \/ Len(new_password) <= MinPasswordLen

PasswordTooShort(new_password) ==
    new_password = <<>> \/ Len(new_password) < MinPasswordLen

\* self.reset_tokens[token]['used'] = True
\* (mutants: the flag is not set; the record is rebuilt without its identity)
MarkUsedNoop(store, token) == store

MarkUsedDropsEmail(store, token) ==
    [store EXCEPT ![token] = [email |-> <<>>, expiry |-> @.expiry, used |-> TRUE]]

MarkUsed(store, token) == [store EXCEPT ![token].used = TRUE]

\* (mutant of reset_password: the password is checked before the token)
reset_password_password_first(token, new_password) ==
    LET validation == validate_token(token)
    IN  IF PasswordTooShort(new_password)
        THEN /\ last' = Result("consume", token, <<>>, FALSE,
                               "Password must be at least 8 characters", 0)
             /\ UNCHANGED <<now, requests, reset_tokens, rlHist, apiVars, tokHist>>
        ELSE IF ~validation.valid
        THEN /\ last' = Result("consume", token, <<>>, FALSE, validation.error, 0)
             /\ UNCHANGED <<now, requests, reset_tokens, rlHist, apiVars, tokHist>>
        ELSE /\ reset_tokens' = MarkUsed(reset_tokens, token)
             /\ last' = Result("consume", token, validation.email, TRUE,
                               "Password reset successfully", 0)
             /\ consumedOK' = [consumedOK EXCEPT ![token] = @ + 1]
             /\ consumedThis' = [consumedThis EXCEPT ![token] = TRUE]
             /\ UNCHANGED <<now, requests, rlHist, apiVars, gens, collided, issuedAt>>

reset_password(token, new_password) ==
    LET validation == validate_token(token)
        retry == /\ last.op = "consume" /\ last.arg = token
                 /\ last.msg = "Password must be at least 8 characters"
    IN  IF ~validation.valid
        THEN /\ last' = Result("consume", token, <<>>, FALSE, validation.error, 0)
             /\ UNCHANGED <<now, requests, reset_tokens, rlHist, apiVars, tokHist>>
        ELSE IF PasswordTooShort(new_password)
        THEN /\ last' = Result("consume", token, <<>>, FALSE,
                               "Password must be at least 8 characters", 0)
             /\ UNCHANGED <<now, requests, reset_tokens, rlHist, apiVars, tokHist>>
        ELSE /\ reset_tokens' = MarkUsed(reset_tokens, token)
             /\ last' = [Result("consume", token, validation.email, TRUE,
                                "Password reset successfully", 0)
                            EXCEPT !.retry = retry]
             /\ consumedOK' = [consumedOK EXCEPT ![token] = @ + 1]
             /\ consumedThis' = [consumedThis EXCEPT ![token] = TRUE]
             /\ UNCHANGED <<now, requests, rlHist, apiVars, gens, collided, issuedAt>>

\* if current_time > data['expiry']
\* (mutants: used records are kept; the record is removed at its expiry instant)
CleanupSkipsUsed(data, current_time) == current_time > data.expiry /\ ~data.used

CleanupAtExpiry(data, current_time) == current_time >= data.expiry

CleanupExpired(data, current_time) == current_time > data.expiry

cleanup_expired_tokens ==
    LET current_time == now
        expired == {token \in DOMAIN reset_tokens :
                        CleanupExpired(reset_tokens[token], current_time)}
    IN  /\ reset_tokens' = [token \in (DOMAIN reset_tokens) \ expired |->
                                reset_tokens[token]]
        /\ last' = Result("cleanup", "", <<>>, TRUE, "", Cardinality(expired))
        /\ UNCHANGED <<now, requests, rlHist, apiVars, tokHist>>

\* ---- the clock ------------------------------------------------------------
Tick(limit) ==
    /\ now < limit
    /\ \E t \in (now + 1)..limit : now' = t
    /\ last' = Result("tick", "", <<>>, FALSE, "", 0)
    /\ UNCHANGED <<requests, reset_tokens, rlHist, apiVars, tokHist>>

\* ---- PasswordResetRequestAPI ------------------------------------------------
\* if not email or '@' not in email   (mutant: only the empty email fails)
InvalidEmailFormatOnlyEmpty(email) == email = <<>>

InvalidEmailFormat(email) == email = <<>> \/ ~HasAt(email)

\* str.lower() on the alphabet of the model, whose one capital is "A"
Lower(email) == [i \in DOMAIN email |-> IF email[i] = "A" THEN "a" ELSE email[i]]

\* str.strip(): leading and trailing blanks are removed
RECURSIVE Strip(_)
Strip(email) ==
    IF email = <<>> THEN <<>>
    ELSE IF Head(email) = " " THEN Strip(Tail(email))
    ELSE IF email[Len(email)] = " " THEN Strip(SubSeq(email, 1, Len(email) - 1))
    ELSE email

\* email = email.lower().strip()
Normalize(email) == Strip(Lower(email))

\* register_user stores email.lower()
register_user(email) ==
    /\ registered_emails' = registered_emails \cup {Lower(email)}
    /\ last' = Result("register_user", "", email, TRUE, "", 0)
    /\ UNCHANGED <<now, requests, reset_tokens, rlHist, tokHist, issued, calls, raced>>

is_registered_email(email, registered) == Lower(email) \in registered

\* what rate_limiter.is_allowed(email) at time t returns, and the dictionary
\* it leaves
IsAllowedResult(reqs, email, t) ==
    LET stored == IF email \in DOMAIN reqs THEN reqs[email] ELSE <<>>
        purged == Purge(stored, t - Window)
    IN  IF ~UnderLimit(purged)
        THEN [allowed |-> FALSE, requests |-> Put(reqs, email, purged)]
        ELSE [allowed |-> TRUE, requests |-> Put(reqs, email, Append(purged, t))]

\* what rate_limiter.get_retry_after(email) at time t returns: None or seconds
\* (mutant: the retry time is counted from two windows after the oldest request)
RetryAfterResultLong(reqs, email, t) ==
    IF email \notin DOMAIN reqs \/ reqs[email] = <<>>
    THEN [none |-> TRUE, seconds |-> 0]
    ELSE LET oldest_request == SeqMin(reqs[email])
             retry_time == oldest_request + 2 * Window
             seconds_left == IntTrunc(retry_time - t, TicksPerSecond)
         IN  [none |-> FALSE, seconds |-> Max(0, seconds_left)]

RetryAfterResult(reqs, email, t) ==
    IF email \notin DOMAIN reqs \/ reqs[email] = <<>>
    THEN [none |-> TRUE, seconds |-> 0]
    ELSE LET oldest_request == SeqMin(reqs[email])
             retry_time == oldest_request + Window
             seconds_left == IntTrunc(retry_time - t, TicksPerSecond)
         IN  [none |-> FALSE, seconds |-> Max(0, seconds_left)]

Response(ok, msg, val, reqs, generates) ==
    [ok |-> ok, msg |-> msg, val |-> val, requests |-> reqs, generates |-> generates]

\* The response of request_password_reset(email) entered at time t, whose
\* get_retry_after call reads the clock at t2 >= t, with the dictionary of the
\* rate limiter it leaves and whether generate_reset_token is called.
\* retry_after // 60 raises TypeError when retry_after is None.
\* (mutants: the token is generated before the rate limiter is asked; an
\* unregistered email is answered without asking the rate limiter)
RequestOutcomeGeneratesFirst(email, t2, reqs, t, registered) ==
    IF InvalidEmailFormat(email)
    THEN Response(FALSE, "Invalid email format", 0, reqs, FALSE)
    ELSE LET key == Normalize(email)
             limiter == IsAllowedResult(reqs, key, t)
             retry_after == RetryAfterResult(limiter.requests, key, t2)
         IN  IF ~limiter.allowed
             THEN IF retry_after.none
                  THEN Response(FALSE, "TypeError", 0, limiter.requests,
                                is_registered_email(key, registered))
                  ELSE Response(FALSE, "Too many reset requests",
                                retry_after.seconds, limiter.requests,
                                is_registered_email(key, registered))
             ELSE Response(TRUE, "If the email exists in our system", 0,
                           limiter.requests, is_registered_email(key, registered))

RequestOutcomeSkipsUnregistered(email, t2, reqs, t, registered) ==
    IF InvalidEmailFormat(email)
    THEN Response(FALSE, "Invalid email format", 0, reqs, FALSE)
    ELSE LET key == Normalize(email)
             limiter == IsAllowedResult(reqs, key, t)
             retry_after == RetryAfterResult(limiter.requests, key, t2)
         IN  IF ~is_registered_email(key, registered)
             THEN Response(TRUE, "If the email exists in our system", 0, reqs, FALSE)
             ELSE IF ~limiter.allowed
             THEN IF retry_after.none
                  THEN Response(FALSE, "TypeError", 0, limiter.requests, FALSE)
                  ELSE Response(FALSE, "Too many reset requests",
                                retry_after.seconds, limiter.requests, FALSE)
             ELSE Response(TRUE, "If the email exists in our system", 0,
                           limiter.requests, TRUE)

RequestOutcome(email, t2, reqs, t, registered) ==
    IF InvalidEmailFormat(email)
    THEN Response(FALSE, "Invalid email format", 0, reqs, FALSE)
    ELSE LET key == Normalize(email)
             limiter == IsAllowedResult(reqs, key, t)
             retry_after == RetryAfterResult(limiter.requests, key, t2)
         IN  IF ~limiter.allowed
             THEN IF retry_after.none
                  THEN Response(FALSE, "TypeError", 0, limiter.requests, FALSE)
                  ELSE Response(FALSE, "Too many reset requests",
                                retry_after.seconds, limiter.requests, FALSE)
             ELSE Response(TRUE, "If the email exists in our system", 0,
                           limiter.requests, is_registered_email(key, registered))

\* request_password_reset: the rate limiter's call, then generate_reset_token
\* for a registered email (its ValueError is caught at line 175), then the
\* response.  t2 is the clock read by get_retry_after after a rejection.
request_password_reset(email, t2) ==
    LET key == Normalize(email)
        outcome == RequestOutcome(email, t2, requests, now, registered_emails)
        rejected == ~InvalidEmailFormat(email) /\ ~outcome.ok
    IN  /\ t2 >= now
        /\ t2 > now => rejected
        /\ now' = IF rejected THEN t2 ELSE now
        /\ requests' = outcome.requests
        /\ last' = Result("request", "", IF InvalidEmailFormat(email) THEN email ELSE key,
                          outcome.ok, outcome.msg, outcome.val)
        /\ IF InvalidEmailFormat(email)
           THEN UNCHANGED <<admitted, wasRejected>>
           ELSE IF outcome.ok
           THEN /\ admitted' = [admitted EXCEPT ![key] = Append(@, now)]
                /\ wasRejected' = wasRejected
           ELSE /\ wasRejected' = [wasRejected EXCEPT ![key] = TRUE]
                /\ admitted' = admitted
        /\ IF outcome.generates /\ ~InvalidEmail(key)
           THEN \E token \in GenTokens :       \* generate_reset_token(email)
                /\ reset_tokens' = Put(reset_tokens, token,
                        [email |-> key, expiry |-> ExpiryOf(now), used |-> FALSE])
                /\ gens' = [gens EXCEPT ![token] = @ + 1]
                /\ collided' = [collided EXCEPT ![token] = @ \/ token \in DOMAIN reset_tokens]
                /\ issuedAt' = [issuedAt EXCEPT ![token] = now]
                /\ consumedThis' = [consumedThis EXCEPT ![token] = FALSE]
                /\ issued' = [issued EXCEPT ![key] = Append(@, now)]
                /\ UNCHANGED consumedOK
           ELSE UNCHANGED <<reset_tokens, tokHist, issued>>
        /\ UNCHANGED <<retryAt, registered_emails, calls, raced>>

\* ---- interleaved calls ----------------------------------------------------
\* Nothing in either class takes a lock, so a thread can be preempted between
\* any two accesses of the shared dictionaries.  A call is cut at those
\* accesses; calls[th] holds the position and the locals of thread th.
InProgress(th, pcs) == calls[th].pc \in pcs

\* reset_password, lines 85-98: validation and password test, on the way to
\* line 101
reset_password_validate(th, token, new_password) ==
    LET validation == validate_token(token)
    IN  /\ calls[th] = Idle
        /\ IF ~validation.valid
           THEN /\ last' = Result("consume", token, <<>>, FALSE, validation.error, 0)
                /\ UNCHANGED <<calls, raced>>
           ELSE IF PasswordTooShort(new_password)
           THEN /\ last' = Result("consume", token, <<>>, FALSE,
                                  "Password must be at least 8 characters", 0)
                /\ UNCHANGED <<calls, raced>>
           ELSE /\ calls' = [calls EXCEPT ![th] =
                                Call("mark_used", token, validation.email, now, <<>>)]
                /\ raced' = (raced \/ \E o \in Threads \ {th} :
                                 InProgress(o, {"mark_used"}) /\ calls[o].token = token)
                /\ last' = last
        /\ UNCHANGED <<now, requests, reset_tokens, rlHist, tokHist,
                       registered_emails, issued>>

\* reset_password, lines 100-110: the used flag is set and success returned
reset_password_mark_used(th) ==
    LET token == calls[th].token
    IN  /\ InProgress(th, {"mark_used"})
        /\ reset_tokens' = MarkUsed(reset_tokens, token)
        /\ last' = Result("consume", token, calls[th].email, TRUE,
                          "Password reset successfully", 0)
        /\ consumedOK' = [consumedOK EXCEPT ![token] = @ + 1]
        /\ consumedThis' = [consumedThis EXCEPT ![token] = TRUE]
        /\ calls' = [calls EXCEPT ![th] = Idle]
        /\ UNCHANGED <<now, requests, rlHist, gens, collided, issuedAt,
                       registered_emails, issued, raced>>

IsAllowedPcs == {"assign", "check", "append"}

\* is_allowed, lines 23-34: the clock is read, the list of the key is created
\* if missing, and the comprehension builds the purged list
is_allowed_purge(th, email) ==
    LET stored == IF email \in DOMAIN requests THEN requests[email] ELSE <<>>
        window_start == now - Window
    IN  /\ calls[th] = Idle
        /\ requests' = Put(requests, email, stored)
        /\ calls' = [calls EXCEPT ![th] =
                        Call("assign", "", email, now, Purge(stored, window_start))]
        /\ raced' = (raced \/ \E o \in Threads \ {th} :
                         InProgress(o, IsAllowedPcs) /\ calls[o].email = email)
        /\ UNCHANGED <<now, reset_tokens, last, rlHist, tokHist,
                       registered_emails, issued>>

\* is_allowed, line 31: the purged list is stored
is_allowed_assign(th) ==
    /\ InProgress(th, {"assign"})
    /\ requests' = Put(requests, calls[th].email, calls[th].list)
    /\ calls' = [calls EXCEPT ![th].pc = "check", ![th].list = <<>>]
    /\ UNCHANGED <<now, reset_tokens, last, rlHist, tokHist,
                   registered_emails, issued, raced>>

\* is_allowed, lines 37-38: the length test
is_allowed_check(th) ==
    LET email == calls[th].email
    IN  /\ InProgress(th, {"check"})
        /\ IF ~UnderLimit(requests[email])
           THEN /\ last' = Result("is_allowed", "", email, FALSE, "", 0)
                /\ wasRejected' = [wasRejected EXCEPT ![email] = TRUE]
                /\ calls' = [calls EXCEPT ![th] = Idle]
           ELSE /\ calls' = [calls EXCEPT ![th].pc = "append"]
                /\ UNCHANGED <<last, wasRejected>>
        /\ UNCHANGED <<now, requests, reset_tokens, admitted, retryAt, tokHist,
                       registered_emails, issued, raced>>

\* is_allowed, lines 41-42: the timestamp read at line 23 is appended
is_allowed_append(th) ==
    LET email == calls[th].email
    IN  /\ InProgress(th, {"append"})
        /\ requests' = [requests EXCEPT ![email] = Append(@, calls[th].t)]
        /\ last' = Result("is_allowed", "", email, TRUE, "", 0)
        /\ admitted' = [admitted EXCEPT ![email] = Append(@, calls[th].t)]
        /\ calls' = [calls EXCEPT ![th] = Idle]
        /\ UNCHANGED <<now, reset_tokens, wasRejected, retryAt, tokHist,
                       registered_emails, issued, raced>>

\* ---- specifications -----------------------------------------------------
Init ==
    /\ now = 0
    /\ requests = <<>>
    /\ reset_tokens = <<>>
    /\ last = Result("init", "", <<>>, FALSE, "", 0)
    /\ admitted = [k \in Keys |-> <<>>]
    /\ wasRejected = [k \in Keys |-> FALSE]
    /\ retryAt = {}
    /\ gens = [t \in GenTokens |-> 0]
    /\ collided = [t \in GenTokens |-> FALSE]
    /\ issuedAt = [t \in GenTokens |-> 0]
    /\ consumedOK = [t \in GenTokens |-> 0]
    /\ consumedThis = [t \in GenTokens |-> FALSE]
    /\ registered_emails = {}
    /\ issued = [k \in Keys |-> <<>>]
    /\ calls = [th \in Threads |-> Idle]
    /\ raced = FALSE

IsAllowedCall == \E email \in Keys : is_allowed(email)
GetRetryAfterCall == \E email \in Keys : get_retry_after(email)
TickRL == Tick(MaxTimeRL)

NextRL == IsAllowedCall \/ GetRetryAfterCall \/ TickRL

SpecRL == Init /\ [][NextRL]_vars

\* one key and a clock that runs past the window by more than a second
MaxTimeRetry == Window + TicksPerSecond + 1
IsAllowedOneKey == is_allowed(EmailA)
GetRetryAfterOneKey == get_retry_after(EmailA)
TickRetry == Tick(MaxTimeRetry)

NextRetry == IsAllowedOneKey \/ GetRetryAfterOneKey \/ TickRetry

SpecRetry == Init /\ [][NextRetry]_vars

GenerateCall == \E email \in Emails : generate_reset_token(email)
ValidateCall == \E token \in Tokens : Validate(token)
ResetPasswordCall == \E token \in Tokens, new_password \in Passwords : reset_password(token, new_password)
CleanupCall == cleanup_expired_tokens
TickTok == Tick(MaxTimeTok)

NextTok == GenerateCall \/ ValidateCall \/ ResetPasswordCall \/ CleanupCall \/ TickTok

SpecTok == Init /\ [][NextTok]_vars

\* the rate limiter of one key next to the token manager with one token string
MaxTimeAll == Expiry + 1
GenerateOne ==
    \E email \in {EmailA, <<>>, <<"a", "b">>} :
        generate_reset_token(email) /\ last'.arg # "t2"
ValidateOne == \E token \in {"t1", ""} : Validate(token)
ResetPasswordOne ==
    \E token \in {"t1", ""}, n \in {MinPasswordLen - 1, MinPasswordLen} :
        reset_password(token, [i \in 1..n |-> "x"])
TickAll == Tick(MaxTimeAll)

NextAll == IsAllowedOneKey \/ GenerateOne \/ ValidateOne \/ ResetPasswordOne \/ TickAll

SpecAll == Init /\ [][NextAll]_vars

\* two threads consuming one token string
MaxTimeRaceTok == Expiry + 1
GenerateRace == generate_reset_token(EmailA) /\ last'.arg = "t1"
ConsumeValidate ==
    \E th \in Threads, n \in {MinPasswordLen - 1, MinPasswordLen} :
        reset_password_validate(th, "t1", [i \in 1..n |-> "x"])
ConsumeMarkUsed == \E th \in Threads : reset_password_mark_used(th)
TickRaceTok == Tick(MaxTimeRaceTok)

NextRaceTok == GenerateRace \/ ConsumeValidate \/ ConsumeMarkUsed \/ TickRaceTok

SpecRaceTok == Init /\ [][NextRaceTok]_vars

\* two threads asking for one key
MaxTimeRaceRL == Window
IsAllowedPurge ==
    /\ Len(admitted[EmailA]) + Cardinality({o \in Threads : InProgress(o, IsAllowedPcs)})
           < MaxRaceCalls
    /\ \E th \in Threads : is_allowed_purge(th, EmailA)
IsAllowedAssign == \E th \in Threads : is_allowed_assign(th)
IsAllowedCheck == \E th \in Threads : is_allowed_check(th)
IsAllowedAppend == \E th \in Threads : is_allowed_append(th)
TickRaceRL == Tick(MaxTimeRaceRL)

NextRaceRL == IsAllowedPurge \/ IsAllowedAssign \/ IsAllowedCheck \/ IsAllowedAppend \/ TickRaceRL

SpecRaceRL == Init /\ [][NextRaceRL]_vars

\* the token store alone: well-formed calls that create, change or remove records
GenerateStore == generate_reset_token(EmailA)
ConsumeStore ==
    \E token \in GenTokens : reset_password(token, [i \in 1..MinPasswordLen |-> "x"])
TickStore == Tick(MaxTimeTok)

NextStore == GenerateStore \/ ConsumeStore \/ CleanupCall \/ TickStore

SpecStore == Init /\ [][NextStore]_vars

\* the request handler, with emails that normalize to one key
MaxTimeAPI == Window + 1
RawEmails == {EmailA, <<"A", "@", "b">>, <<"a", "@", "b", " ">>, <<>>, <<"a", "b">>}
RegisterUserCall == \E email \in {<<"A", "@", "b">>, <<"a", "@", "b", " ">>} : register_user(email)
RequestCall == \E email \in RawEmails, t2 \in now..MaxTimeAPI : request_password_reset(email, t2)
TickAPI == Tick(MaxTimeAPI)

NextAPI == RegisterUserCall \/ RequestCall \/ TickAPI

SpecAPI == Init /\ [][NextAPI]_vars

\* In the action properties below the conjuncts on last'.op and last'.arg are
\* implied by the action they precede; they only let the evaluation skip the
\* other steps.

\* ---- properties of the RateLimiter (SpecRL) -------------------------------
\* number of admitted calls of a history with a timestamp in (t - Window, t]
InWindow(history, t) ==
    Cardinality({i \in DOMAIN history : history[i] > t - Window /\ history[i] <= t})

\* the last max_requests admitted calls of the key are all inside the window
WindowFull(email) ==
    /\ Len(admitted[email]) >= max_requests
    /\ admitted[email][Len(admitted[email]) - max_requests + 1] > now - Window

\* C1: once max_requests calls of a key were admitted within one window, every
\* further is_allowed call of the key is rejected while the oldest of those
\* admitted timestamps is still inside the window.
C1_RejectedWhileWindowFull ==
    [][\A email \in Keys :
          (last'.op = "is_allowed" /\ WindowFull(email) /\ is_allowed(email))
              => (last'.ok = FALSE)]_vars

\* a rejection at an instant later than the last admission, window still full
C1_Witness ==
    /\ last.op = "is_allowed" /\ ~last.ok
    /\ WindowFull(last.email)
    /\ now > admitted[last.email][Len(admitted[last.email])]

\* C2: for every key and every instant t, at most max_requests admitted calls
\* have a timestamp in the trailing window (t - Window, t].
C2_AtMostMaxPerWindow ==
    \A email \in Keys : \A t \in 0..MaxTimeRL :
        InWindow(admitted[email], t) <= max_requests

\* a key with more admissions than max_requests overall, the window full now,
\* seen after a get_retry_after call
C2_Witness ==
    /\ last.op = "get_retry_after"
    /\ Len(admitted[last.email]) > max_requests
    /\ InWindow(admitted[last.email], now) = max_requests

\* C3: a key that was rejected is admitted again, with no reset, by the first
\* is_allowed call made once the window has elapsed since its oldest recorded
\* timestamp (now >= oldest + Window).
C3_AdmittedAfterWindow ==
    [][\A email \in Keys :
          (/\ last'.op = "is_allowed"
           /\ wasRejected[email]
           /\ email \in DOMAIN requests
           /\ requests[email] # <<>>
           /\ now >= SeqMin(requests[email]) + Window
           /\ is_allowed(email)) => (last'.ok = TRUE)]_vars

\* a rejected key admitted exactly Window after the oldest of a full window
C3_Witness ==
    /\ last.op = "is_allowed" /\ last.ok
    /\ wasRejected[last.email]
    /\ LET h == admitted[last.email]
       IN  /\ Len(h) > max_requests
           /\ h[Len(h)] = h[Len(h) - max_requests] + Window

\* ---- properties of the PasswordResetManager (SpecTok) ---------------------
\* single use of the token string t, as of the current state
SingleUse(t) ==
    /\ consumedOK[t] <= 1
    /\ (last.op = "validate" /\ last.arg = t /\ last.ok) => consumedOK[t] = 0

\* C4 as stated: if generate never returned a string that was in the store at
\* that time, at most one consume of a token succeeds and no validate of it is
\* valid after the successful consume.
C4_SingleUse_InStoreFresh ==
    \A t \in GenTokens : ~collided[t] => SingleUse(t)

\* C4 (amended): the same for a token string that generate returned only once.
C4_SingleUse ==
    \A t \in GenTokens : gens[t] <= 1 => SingleUse(t)

\* a second consume of a consumed token, refused
C4_Witness ==
    /\ last.op = "consume" /\ ~last.ok
    /\ last.arg \in GenTokens
    /\ gens[last.arg] = 1 /\ consumedOK[last.arg] = 1

\* C5 as stated: after a successful consume of T (T not issued again), every
\* later consume of T fails with 'Token already used'.
C5_AlreadyUsedForever ==
    [][\A t \in GenTokens : \A new_password \in Passwords :
          (last'.op = "consume" /\ consumedThis[t] /\ reset_password(t, new_password))
              => (~last'.ok /\ last'.msg = "Token already used")]_vars

\* C5 (amended): after a successful consume of T (T not issued again), every
\* later consume of T fails: with 'Token already used' while the record is in
\* the store, with 'Invalid token' once cleanup_expired_tokens has removed it.
C5_NeverConsumedAgain ==
    [][\A t \in GenTokens : \A new_password \in Passwords :
          (last'.op = "consume" /\ consumedThis[t] /\ reset_password(t, new_password))
              => /\ ~last'.ok
                 /\ last'.msg = IF t \in DOMAIN reset_tokens
                                THEN "Token already used" ELSE "Invalid token"]_vars

\* a consume of a consumed token whose record cleanup has removed
C5_Witness ==
    /\ last.op = "consume" /\ ~last.ok /\ last.msg = "Invalid token"
    /\ last.arg \in GenTokens
    /\ consumedThis[last.arg]
    /\ last.arg \notin DOMAIN reset_tokens

\* C6 as stated: a token with expiry <= now never validates.
C6_ExpiryReachedNeverValid ==
    (/\ last.op = "validate"
     /\ last.arg \in DOMAIN reset_tokens
     /\ reset_tokens[last.arg].expiry <= now) => ~last.ok

\* C6 (amended): a token with expiry < now never validates; at the instant
\* now = expiry an unused token still validates.
C6_ExpiryPassedNeverValid ==
    (last.op = "validate" /\ last.arg \in DOMAIN reset_tokens) =>
        LET token_data == reset_tokens[last.arg]
        IN  /\ token_data.expiry < now => ~last.ok
            /\ (token_data.expiry = now /\ ~token_data.used) => last.ok

\* a validate of an unused token at the very instant of its expiry
C6_Witness ==
    /\ last.op = "validate" /\ last.ok
    /\ last.arg \in DOMAIN reset_tokens
    /\ reset_tokens[last.arg].expiry = now

\* C7: a token issued at t0 and never consumed, whose record is in the store,
\* validates as invalid with 'Token has expired' at any time after t0 + 1 hour.
C7_ExpiredAfterOneHour ==
    \A t \in GenTokens :
        (/\ last.op = "validate" /\ last.arg = t
         /\ t \in DOMAIN reset_tokens
         /\ ~consumedThis[t]
         /\ now > issuedAt[t] + Expiry)
            => (~last.ok /\ last.msg = "Token has expired")

C7_Witness ==
    /\ last.op = "validate" /\ last.msg = "Token has expired"
    /\ last.arg \in DOMAIN reset_tokens
    /\ ~consumedThis[last.arg]
    /\ now > issuedAt[last.arg] + Expiry

\* C8: validate reports one reason by a fixed precedence: empty token, unknown
\* token, used, expired (now > expiry), otherwise valid with the identity.
C8_ValidatePrecedence ==
    last.op = "validate" =>
        LET token == last.arg
            inStore == token # "" /\ token \in DOMAIN reset_tokens
        IN  /\ token = "" => (~last.ok /\ last.msg = "Token is required")
            /\ (token # "" /\ ~inStore) => (~last.ok /\ last.msg = "Invalid token")
            /\ (inStore /\ reset_tokens[token].used)
                  => (~last.ok /\ last.msg = "Token already used")
            /\ (inStore /\ ~reset_tokens[token].used /\ now > reset_tokens[token].expiry)
                  => (~last.ok /\ last.msg = "Token has expired")
            /\ (inStore /\ ~reset_tokens[token].used /\ ~(now > reset_tokens[token].expiry))
                  => (last.ok /\ last.email = reset_tokens[token].email)

\* a validate of a token that is both used and expired
C8_Witness ==
    /\ last.op = "validate" /\ last.msg = "Token already used"
    /\ last.arg \in DOMAIN reset_tokens
    /\ reset_tokens[last.arg].used
    /\ now > reset_tokens[last.arg].expiry

\* C9: validate is read-only: the token store is the same before and after.
C9_ValidateReadOnly ==
    [][\A token \in Tokens :
          (last'.op = "validate" /\ Validate(token)) => reset_tokens' = reset_tokens]_vars

\* a validate that reported an expired token, the record still in the store
C9_Witness ==
    /\ last.op = "validate" /\ last.msg = "Token has expired"
    /\ last.arg \in DOMAIN reset_tokens

\* the token string is ACTIVE: issued, not consumed since, not past its expiry
Active(t) == gens[t] >= 1 /\ ~consumedThis[t] /\ now <= issuedAt[t] + Expiry

\* C10: a consume of an ACTIVE token with a credential shorter than 8 fails
\* with the length error and leaves the store unchanged; a consume with 8 or
\* more characters of an ACTIVE token, also after such a refusal, succeeds.
C10_ShortPasswordKeepsActive ==
    [][\A t \in GenTokens : \A new_password \in Passwords :
          (/\ last'.op = "consume" /\ last'.arg = t
           /\ Active(t) /\ reset_password(t, new_password)) =>
              IF Len(new_password) < MinPasswordLen
              THEN /\ ~last'.ok
                   /\ last'.msg = "Password must be at least 8 characters"
                   /\ reset_tokens' = reset_tokens
              ELSE last'.ok /\ reset_tokens'[t].used]_vars

\* a successful consume right after a short credential was refused on the token
C10_Witness ==
    /\ last.op = "consume" /\ last.ok
    /\ last.retry

\* C11: when validate of T is invalid, a consume of T fails with the reason
\* validate gives at that instant, whatever the credential, and the store is
\* unchanged; so does a consume that directly follows a failed validate call.
C11_ConsumeReturnsValidateFailure ==
    [][\A token \in Tokens : \A new_password \in Passwords :
          (/\ last'.op = "consume" /\ last'.arg = token
           /\ reset_password(token, new_password)) =>
              /\ ~validate_token(token).valid =>
                    /\ ~last'.ok
                    /\ last'.msg = validate_token(token).error
                    /\ reset_tokens' = reset_tokens
              /\ (last.op = "validate" /\ last.arg = token /\ ~last.ok) =>
                    (~last'.ok /\ last'.msg = last.msg)]_vars

\* a consume refused for an unused, expired token whose record is in the store
C11_Witness ==
    /\ last.op = "consume" /\ ~last.ok /\ last.msg = "Token has expired"
    /\ last.arg \in DOMAIN reset_tokens
    /\ ~reset_tokens[last.arg].used

\* C12: cleanup removes every record with now > expiry, used or not, removes
\* and alters no other record and returns the number removed; afterwards no
\* record with expiry < now is in the store.
C12_CleanupRemovesExpired ==
    [][(last'.op = "cleanup" /\ cleanup_expired_tokens) =>
          LET kept == {t \in DOMAIN reset_tokens : ~(now > reset_tokens[t].expiry)}
          IN  /\ DOMAIN reset_tokens' = kept
              /\ \A t \in kept : reset_tokens'[t] = reset_tokens[t]
              /\ last'.val = Cardinality((DOMAIN reset_tokens) \ kept)
              /\ \A t \in DOMAIN reset_tokens' : ~(reset_tokens'[t].expiry < now)]_vars

\* a cleanup that removed two records, one of a consumed token and one of a
\* token never consumed
C12_Witness ==
    /\ last.op = "cleanup" /\ last.val = 2
    /\ reset_tokens = <<>>
    /\ \E t \in GenTokens : consumedThis[t]
    /\ \E t \in GenTokens : gens[t] >= 1 /\ ~consumedThis[t]

\* C13: cleanup never removes or alters a token that validates: an ACTIVE
\* token validates with the same identity right after cleanup as before.
C13_CleanupKeepsActive ==
    [][(last'.op = "cleanup" /\ cleanup_expired_tokens) =>
          \A t \in GenTokens :
              validate_token(t).valid =>
                  /\ t \in DOMAIN reset_tokens'
                  /\ reset_tokens'[t] = reset_tokens[t]
                  /\ validate_token(t)' = validate_token(t)]_vars

\* a cleanup that removed a record and kept a token at the instant of its expiry
C13_Witness ==
    /\ last.op = "cleanup" /\ last.val >= 1
    /\ \E t \in DOMAIN reset_tokens :
          Active(t) /\ reset_tokens[t].expiry = now

\* C14: generate with an empty identity or one without '@' fails with the
\* invalid-input error and leaves the store unchanged.
C14_GenerateRejectsMalformed ==
    [][\A email \in Emails :
          (/\ last'.op = "generate"
           /\ (email = <<>> \/ \A i \in DOMAIN email : email[i] # "@")
           /\ generate_reset_token(email)) =>
              /\ ~last'.ok /\ last'.msg = "ValueError"
              /\ reset_tokens' = reset_tokens]_vars

\* a refused generate for a non-empty identity without '@', the store not empty
C14_Witness ==
    /\ last.op = "generate" /\ ~last.ok /\ last.msg = "ValueError"
    /\ last.email # <<>>
    /\ reset_tokens # <<>>

\* C15: a successful generate at time t stores, under the returned token, a
\* record with the identity, used = false and expiry t + 1 hour, and leaves the
\* other records alone; until a consume the record stays as it is, and a
\* validate at any time in [t, t + 1 hour) returns valid with that identity.
C15_GenerateIssuesActive ==
    [][/\ \A email \in Emails :
            (last'.op = "generate" /\ last'.ok /\ generate_reset_token(email)) =>
                LET token == last'.arg
                IN  /\ DOMAIN reset_tokens' = (DOMAIN reset_tokens) \cup {token}
                    /\ reset_tokens'[token] =
                          [email |-> email, expiry |-> now + Expiry, used |-> FALSE]
                    /\ \A t \in (DOMAIN reset_tokens) \ {token} :
                          reset_tokens'[t] = reset_tokens[t]
       /\ \A t \in GenTokens :
            (/\ gens[t] >= 1 /\ gens'[t] = gens[t]
             /\ ~consumedThis'[t]
             /\ now' < issuedAt[t] + Expiry) =>
                /\ t \in DOMAIN reset_tokens /\ t \in DOMAIN reset_tokens'
                /\ reset_tokens'[t] = reset_tokens[t]
                /\ (last'.op = "validate" /\ last'.arg = t) =>
                      (last'.ok /\ last'.email = reset_tokens[t].email)]_vars

\* a valid validate strictly between the issue of the token and its expiry
C15_Witness ==
    /\ last.op = "validate" /\ last.ok
    /\ now > issuedAt[last.arg]
    /\ now < issuedAt[last.arg] + Expiry

\* ---- further properties of the RateLimiter (SpecRL) -----------------------
\* the timestamps of a list inside the trailing window (t - Window, t]
InsideWindow(ts_list, t) ==
    SelectSeq(ts_list, LAMBDA ts : t - Window < ts /\ ts <= t)

\* C16: a rejected is_allowed call records nothing: afterwards the key holds
\* exactly the in-window timestamps it held before, no new one, and no
\* admission is noted.
C16_RejectionRecordsNothing ==
    [][\A email \in Keys :
          (last'.op = "is_allowed" /\ ~last'.ok /\ is_allowed(email)) =>
              /\ email \in DOMAIN requests
              /\ requests'[email] = InsideWindow(requests[email], now)
              /\ admitted' = admitted]_vars

\* a rejection at an instant later than every timestamp the key holds
C16_Witness ==
    /\ last.op = "is_allowed" /\ ~last.ok
    /\ Len(requests[last.email]) = max_requests
    /\ \A i \in DOMAIN requests[last.email] : requests[last.email][i] < now

\* C19: right after an is_allowed call the key's list holds only timestamps of
\* the trailing window (now - Window, now]; the list of a key is changed by no
\* other step than an is_allowed call of that key, so timestamps that left the
\* window stay stored until then.
C19_PurgedLazily ==
    [][/\ \A email \in Keys :
            (last'.op = "is_allowed" /\ is_allowed(email)) =>
                requests'[email] = InsideWindow(requests'[email], now')
       /\ \A email \in DOMAIN requests :
            ~(last'.op = "is_allowed" /\ last'.email = email) =>
                (email \in DOMAIN requests' /\ requests'[email] = requests[email])]_vars

\* an is_allowed call that purged for its key while the other key still holds
\* a timestamp that left the window
C19_Witness ==
    /\ last.op = "is_allowed"
    /\ Len(admitted[last.email]) > Len(requests[last.email])
    /\ \E email \in (DOMAIN requests) \ {last.email} :
          \E i \in DOMAIN requests[email] : requests[email][i] <= now - Window

\* ---- terminal states of a token (SpecTok) ---------------------------------
\* the token string was issued and its latest record is USED, EXPIRED or absent
Terminal(t) ==
    /\ gens[t] >= 1
    /\ \/ consumedThis[t]
       \/ now > issuedAt[t] + Expiry
       \/ t \notin DOMAIN reset_tokens

\* C20: USED, EXPIRED and absent are terminal: a token in one of them never
\* validates, and stays in one of them over every step that does not issue
\* the same string again.
C20_TerminalStates ==
    /\ [](\A t \in GenTokens : Terminal(t) => ~validate_token(t).valid)
    /\ [][\A t \in GenTokens :
             (Terminal(t) /\ gens'[t] = gens[t]) =>
                 /\ Terminal(t)'
                 /\ (last'.op = "validate" /\ last'.arg = t) => ~last'.ok]_vars

\* a validate of a token issued once whose record cleanup has removed
C20_Witness ==
    /\ last.op = "validate" /\ ~last.ok /\ last.msg = "Invalid token"
    /\ last.arg \in GenTokens
    /\ gens[last.arg] = 1
    /\ ~consumedThis[last.arg]

\* ---- properties of get_retry_after (SpecRetry) ----------------------------
\* C17: get_retry_after returns none exactly when the key has no recorded
\* timestamp, and otherwise the whole seconds of (oldest + window) - now,
\* 0 when that is not positive; never a negative number.
C17_RetryAfterValue ==
    last.op = "get_retry_after" =>
        LET email == last.email
            recorded == email \in DOMAIN requests /\ Len(requests[email]) > 0
        IN  /\ last.ok <=> recorded
            /\ last.val >= 0
            /\ recorded =>
                  LET ticks_left == SeqMin(requests[email]) + Window - now
                  IN  last.val = IF ticks_left <= 0 THEN 0
                                 ELSE ticks_left \div TicksPerSecond

\* a call made more than a second after the oldest timestamp left the window
C17_Witness ==
    /\ last.op = "get_retry_after" /\ last.ok /\ last.val = 0
    /\ SeqMin(requests[last.email]) + Window - now <= -TicksPerSecond

\* C18: when is_allowed is rejected at t and get_retry_after at t returns r, an
\* is_allowed call at t + r seconds, no call of the key admitted in between, is
\* admitted.
C18_RetryAfterIsEnough ==
    [][\A email \in Keys :
          (last'.op = "is_allowed" /\ <<email, now>> \in retryAt /\ is_allowed(email))
              => last'.ok]_vars

\* ---- error reporting (SpecAll) ---------------------------------------------
\* what a call can raise, and the reasons a call can give in its result
Exceptions == {"ValueError", "KeyError", "TypeError"}
FailureReasons == {"Token is required", "Invalid token", "Token already used",
                   "Token has expired", "Password must be at least 8 characters"}

\* C21: every failure of validate and consume is a result with valid/success
\* false and one of the five reasons, is_allowed answers true or false, and
\* nothing is raised but by generate on an empty identity or one without '@'.
C21_FailuresAreResults ==
    /\ (last.op \in {"validate", "consume"} /\ ~last.ok) => last.msg \in FailureReasons
    /\ last.op = "is_allowed" => last.msg = ""
    /\ last.msg \in Exceptions =>
           /\ last.op = "generate"
           /\ last.email = <<>> \/ ~HasAt(last.email)

\* a consume refused for a used token, in a run with a rate-limit rejection
C21_Witness ==
    /\ last.op = "consume" /\ ~last.ok /\ last.msg = "Token already used"
    /\ wasRejected[EmailA]

\* ---- interleaved calls (SpecRaceTok, SpecRaceRL) ---------------------------
\* C22: consume validates and sets the used flag in two steps: a token string
\* is consumed more often than it was generated only in a run in which two
\* consume calls of the token were in progress at the same time (and with such
\* calls it is: C22_Witness).
C22_DoubleConsumeOnlyWhenRaced ==
    (\E t \in GenTokens : consumedOK[t] > gens[t]) => raced

\* both interleaved calls have returned success for the token generated once
C22_Witness ==
    /\ gens["t1"] = 1 /\ consumedOK["t1"] = 2
    /\ last.op = "consume" /\ last.ok
    /\ \A th \in Threads : calls[th] = Idle

\* C23: is_allowed purges, tests and appends in separate steps: more than
\* max_requests admitted calls of a key have their timestamps inside one window
\* only in a run in which two is_allowed calls of the key were in progress at
\* the same time (and with such calls they do: C23_Witness).
C23_OverAdmissionOnlyWhenRaced ==
    (\E t \in 0..now : InWindow(admitted[EmailA], t) > max_requests) => raced

\* max_requests + 1 calls were admitted with timestamps inside one window
C23_Witness ==
    /\ InWindow(admitted[EmailA], now) = max_requests + 1
    /\ last.op = "is_allowed" /\ last.ok
    /\ \A th \in Threads : calls[th] = Idle

\* ---- the request handler (SpecAPI) -----------------------------------------
RateLimited == "Too many reset requests"

\* C24: a token is created only by a request_password_reset call in which the
\* rate limiter admitted the normalized email and that email is registered; a
\* rate-limited call creates none; so no identity gets more than max_requests
\* tokens with creation times inside one window.
C24_LimiterBeforeToken ==
    /\ [](\A key \in Keys : \A t \in 0..MaxTimeAPI :
              InWindow(issued[key], t) <= max_requests)
    /\ [][LET key == last'.email
          IN  /\ (issued' # issued \/ reset_tokens' # reset_tokens) =>
                     /\ last'.op = "request" /\ last'.ok
                     /\ admitted'[key] = Append(admitted[key], now)
                     /\ issued'[key] = Append(issued[key], now)
                     /\ Lower(key) \in registered_emails
              /\ (last'.op = "request" /\ last'.msg = RateLimited) =>
                     /\ issued' = issued
                     /\ reset_tokens' = reset_tokens]_vars

\* a registered email is refused with max_requests tokens created in the window
C24_Witness ==
    /\ last.op = "request" /\ last.msg = RateLimited
    /\ InWindow(issued[last.email], now) = max_requests

\* C25: whatever emails are registered, a request_password_reset call made in
\* the same state of the rate limiter at the same time gets the same response
\* (success, message, retry_after) and leaves the same rate-limiter state; and
\* the rate-limiter state is changed by nothing but these calls.  So two runs
\* of the same calls that differ in the registered emails answer alike.
C25_ResponseHidesRegistration ==
    /\ [](\A email \in RawEmails, t2 \in now..MaxTimeAPI :
             \A registered \in SUBSET {EmailA, <<"a", "@", "b", " ">>} :
                 LET here == RequestOutcome(email, t2, requests, now, registered_emails)
                     there == RequestOutcome(email, t2, requests, now, registered)
                 IN  /\ here.ok = there.ok
                     /\ here.msg = there.msg
                     /\ here.val = there.val
                     /\ here.requests = there.requests)
    /\ [][requests' # requests => last'.op = "request"]_vars

\* an email that is not registered is refused by the rate limiter
C25_Witness ==
    /\ last.op = "request" /\ last.msg = RateLimited
    /\ ~is_registered_email(last.email, registered_emails)
    /\ issued[last.email] = <<>>

\* C27: a request refused by the rate limiter carries a retry_after that is a
\* number from 0 to the window length in seconds (the message is built, no
\* TypeError), and the key then has max_requests recorded timestamps.
C27_RetryAfterIsNumber ==
    (last.op = "request" /\ ~last.ok /\ last.msg # "Invalid email format") =>
        /\ last.msg = RateLimited
        /\ last.val >= 0
        /\ last.val <= IntTrunc(Window, TicksPerSecond)
        /\ last.email \in DOMAIN requests
        /\ Len(requests[last.email]) = max_requests

\* a refusal that reports a whole window still to wait
C27_Witness ==
    /\ last.op = "request" /\ last.msg = RateLimited
    /\ last.val = IntTrunc(Window, TicksPerSecond) /\ last.val > 0

\* C28: request_password_reset with an empty email or one without '@' answers
\* success = false, 'Invalid email format', and changes nothing: no timestamp
\* is recorded for any key and no token is created.
C28_MalformedRequestChangesNothing ==
    [][\A email \in RawEmails, t2 \in now..MaxTimeAPI :
          (/\ last'.op = "request"
           /\ email = <<>> \/ ~HasAt(email)
           /\ request_password_reset(email, t2)) =>
              /\ ~last'.ok /\ last'.msg = "Invalid email format"
              /\ UNCHANGED <<now, requests, reset_tokens, registered_emails,
                             rlHist, tokHist, issued>>]_vars

\* a request without '@' refused while the key of a@b has a recorded timestamp
C28_Witness ==
    /\ last.op = "request" /\ last.msg = "Invalid email format"
    /\ last.email = <<"a", "b">>
    /\ EmailA \in DOMAIN requests /\ Len(requests[EmailA]) > 0

\* ---- more properties of the RateLimiter (SpecRL) ---------------------------
\* C26: under sequential calls no key ever has more than max_requests stored
\* timestamps.
C26_StoredAtMostMax ==
    \A email \in DOMAIN requests : Len(requests[email]) <= max_requests

\* every key has a full list, and a further call was refused
C26_Witness ==
    /\ \A email \in Keys : email \in DOMAIN requests /\ Len(requests[email]) = max_requests
    /\ last.op = "is_allowed" /\ ~last.ok

\* C29: is_allowed and get_retry_after of one key leave every other key as it
\* was (its list, and whether it has one), so what is_allowed would answer for
\* another key at this time is the same before and after; get_retry_after
\* changes no list at all.
C29_KeysAreIndependent ==
    [][(last'.op \in {"is_allowed", "get_retry_after"}) =>
          /\ \A other \in Keys \ {last'.email} :
                /\ other \in DOMAIN requests' <=> other \in DOMAIN requests
                /\ other \in DOMAIN requests => requests'[other] = requests[other]
                /\ IsAllowedResult(requests', other, now).allowed
                       = IsAllowedResult(requests, other, now).allowed
          /\ last'.op = "get_retry_after" => requests' = requests]_vars

\* a call is admitted for one key while the other key is full and was refused
C29_Witness ==
    /\ last.op = "is_allowed" /\ last.ok
    /\ \E other \in Keys \ {last.email} :
          /\ wasRejected[other]
          /\ other \in DOMAIN requests /\ Len(requests[other]) = max_requests

\* ---- records of the token store (SpecStore) --------------------------------
\* C30: while a record exists, and unless generate returns its token string
\* again, its identity and expiry do not change and its used flag is never
\* cleared; the record changes only in a successful consume of its token, which
\* sets the flag.
C30_RecordOnlyMarkedUsed ==
    [][\A t \in GenTokens :
          (/\ t \in DOMAIN reset_tokens /\ t \in DOMAIN reset_tokens'
           /\ ~(last'.op = "generate" /\ last'.ok /\ last'.arg = t)) =>
              /\ reset_tokens'[t].email = reset_tokens[t].email
              /\ reset_tokens'[t].expiry = reset_tokens[t].expiry
              /\ reset_tokens[t].used => reset_tokens'[t].used
              /\ reset_tokens'[t] # reset_tokens[t] =>
                     /\ last'.op = "consume" /\ last'.ok /\ last'.arg = t
                     /\ reset_tokens'[t].used]_vars

\* a token was consumed while the record of the other token string is unused
C30_Witness ==
    /\ last.op = "consume" /\ last.ok
    /\ reset_tokens[last.arg].used
    /\ \E t \in GenTokens \ {last.arg} : t \in DOMAIN reset_tokens /\ ~reset_tokens[t].used

====
